---- MODULE Spec2Model ----
(***************************************************************************)
(* Model of ai_audio_tour_agent.py: a Streamlit script that is re-run on   *)
(* every interaction.  One run executes the sidebar block, reads the       *)
(* widgets and, when the "Generate Tour" button was clicked, the button    *)
(* handler: validation, run_async(mgr.run, ...), the text panel, tts(...)  *)
(* and the audio player / download button.                                 *)
(***************************************************************************)
EXTENDS Integers, Sequences, FiniteSets, TLC

VARIABLES
    session_key,      \* st.session_state["OPENAI_API_KEY"], NoKey when absent
    default_key,      \* the key given to set_default_openai_key
    sidebar,          \* what the sidebar block rendered in this run
    api_key,          \* value of the sidebar text input in this run
    location,         \* value of the location text input (a tuple of characters)
    interests,        \* value of the multiselect
    duration,         \* value of the slider
    voice_style,      \* value of the selectbox
    loop_running,     \* environment: an event loop is running in this thread
    pc,               \* position of the script run
    in_fallback,      \* run_async is in its except RuntimeError branch
    gen_calls,        \* mgr.run(...) calls (coroutines created) in this click
    gen_started,      \* coroutines that an event loop actually started
    gen_outcome,      \* the text service's answer to the call in flight
    exc,              \* the exception being propagated, NoExc when none
    final_tour,       \* handler local final_tour, None before it is assigned
    tts_text,         \* parameter text of tts
    speech_file_path, \* tts local: index into tmp_files, 0 when unset
    tts_requests,     \* client.audio.speech.create requests of this call
    tts_outcome,      \* the speech service's answers in this call
    tts_returned,     \* tts has returned to its caller in this call
    tour_audio,       \* handler local tour_audio: a path (index) or 0 for None
    tmp_files,        \* the temporary files on disk: tmp_files[i] is the content
    rendered,         \* elements the button handler rendered in this run
    escaped,          \* an exception left the button handler
    prev              \* history: the previous finished click, kept when the
                      \* next click repeats its inputs except the voice style

vars == << session_key, default_key, sidebar, api_key, location, interests,
           duration, voice_style, loop_running, pc, in_fallback, gen_calls,
           gen_started, gen_outcome, exc, final_tour, tts_text,
           speech_file_path, tts_requests, tts_outcome, tts_returned,
           tour_audio, tmp_files, rendered, escaped, prev >>

(***************************************************************************)
(* Bounds and input sets                                                   *)
(***************************************************************************)
MaxFiles == 2     \* reruns stop once this many temporary files exist

NoKey == "NoKey"
None == "None"
Keys == {"sk-A", "sk-B"}
KeyInputs == {""} \cup Keys
Locations == { << >>, <<"N", " ", "Y">>, <<"n", "_", "y">> }
InterestOptions == {"History", "Architecture", "Culinary", "Culture"}
InterestDefault == {"History", "Architecture"}
InterestChoices == { c \in SUBSET InterestOptions :
                        c \in { {}, InterestDefault, {"Culinary"} } }
DurationMin == 5
DurationDefault == 10
Durations == {DurationMin, DurationDefault}
VoiceStyles == {"Friendly & Casual", "Professional & Detailed",
                "Enthusiastic & Energetic"}
Scripts == {"script-1", "script-2"}

(***************************************************************************)
(* Exceptions, with the classes of Python that the except clauses tell     *)
(* apart: a clause catches the instances of its class and of the classes   *)
(* derived from it.                                                        *)
(***************************************************************************)
NoExc == [type |-> "None", msg |-> ""]
RuntimeErr(m) == [type |-> "RuntimeError", msg |-> m]
NotImplementedErr(m) == [type |-> "NotImplementedError", msg |-> m]
ApiErr(m) == [type |-> "APIError", msg |-> m]
CancelledErr(m) == [type |-> "CancelledError", msg |-> m]
KeyboardInt(m) == [type |-> "KeyboardInterrupt", msg |-> m]

\* the base class of a class
Base(t) ==
    CASE t = "NotImplementedError" -> "RuntimeError"
      [] t = "RuntimeError" -> "Exception"
      [] t = "APIError" -> "Exception"
      [] t = "Exception" -> "BaseException"
      [] t = "CancelledError" -> "BaseException"
      [] t = "KeyboardInterrupt" -> "BaseException"
      [] OTHER -> "object"

RECURSIVE IsSubclass(_, _)
IsSubclass(t, cls) ==
    \/ t = cls
    \/ /\ t # "object"
       /\ IsSubclass(Base(t), cls)

IsInstance(e, cls) ==
    /\ e.type # "None"
    /\ IsSubclass(e.type, cls)

\* except RuntimeError: (run_async)
RunAsyncCatches(e) == IsInstance(e, "RuntimeError")

\* except Exception as e: (tts)
TtsCatches(e) == IsInstance(e, "Exception")

\* except Exception as e: (button handler)
HandlerCatchesOnlyRuntime(e) == IsInstance(e, "RuntimeError")
HandlerCatches(e) == IsInstance(e, "Exception")

(***************************************************************************)
(* Service answers                                                         *)
(***************************************************************************)
NoOutcome == [kind |-> "none", script |-> None, err |-> NoExc]
GenOk(s) == [kind |-> "ok", script |-> s, err |-> NoExc]
GenFail(e) == [kind |-> "raise", script |-> None, err |-> e]
GenOutcomes ==
    {GenOk(s) : s \in Scripts}
    \cup {GenFail(RuntimeErr("service")), GenFail(ApiErr("service")),
          GenFail(NotImplementedErr("nope")), GenFail(CancelledErr(""))}

\* what the speech service returns for a request
Speech(req) == <<"speech", req.model, req.voice, req.input>>

(***************************************************************************)
(* Rendered elements                                                       *)
(***************************************************************************)
Elem(k, a, b) == [kind |-> k, a |-> a, b |-> b]
ErrorElem(prefix, m) == Elem("error", <<prefix, m>>, << >>)

CountKind(r, k) == Cardinality({i \in 1..Len(r) : r[i].kind = k})
HasKind(r, k) == \E i \in 1..Len(r) : r[i].kind = k

\* str.lower() on one character of the locations' alphabet
Lower(c) == IF c = "N" THEN "n" ELSE IF c = "Y" THEN "y" ELSE c

\* str.replace(' ', '_') on one character
ReplaceSpace(c) == IF c = " " THEN "_" ELSE c

\* f"{location.lower().replace(' ', '_')}_tour.mp3"
FileName(loc) ==
    [i \in 1..Len(loc) |-> ReplaceSpace(Lower(loc[i]))] \o <<"_tour.mp3">>

(***************************************************************************)
(* Initial state: a fresh session before the first script run.             *)
(***************************************************************************)
InitCommon ==
    /\ default_key = NoKey
    /\ sidebar = << >>
    /\ api_key = ""
    /\ voice_style = "Friendly & Casual"
    /\ loop_running \in BOOLEAN
    /\ in_fallback = FALSE
    /\ gen_calls = << >>
    /\ gen_started = 0
    /\ gen_outcome = NoOutcome
    /\ exc = NoExc
    /\ final_tour = None
    /\ speech_file_path = 0
    /\ tts_requests = << >>
    /\ tts_outcome = << >>
    /\ tts_returned = FALSE
    /\ tour_audio = 0
    /\ tmp_files = << >>
    /\ rendered = << >>
    /\ escaped = FALSE
    /\ prev = << >>

Init ==
    /\ InitCommon
    /\ session_key = NoKey
    /\ location = << >>
    /\ interests = InterestDefault
    /\ duration = DurationDefault
    /\ tts_text = None
    /\ pc = "idle"

(***************************************************************************)
(* One script run, lines 51-102: the sidebar block, the widgets, the       *)
(* button.  A run starts when the previous one has ended.                  *)
(***************************************************************************)
\* if api_key: st.session_state["OPENAI_API_KEY"] = api_key
StoreKeyAlways(stored, input) == input
StoreKey(stored, input) == IF input # "" THEN input ELSE stored

\* the record of the click that just finished
ClickRecord ==
    [voice |-> voice_style, gen |-> gen_outcome, tts |-> tts_outcome,
     gen_calls |-> gen_calls, gen_started |-> gen_started,
     tts_requests |-> tts_requests, rendered |-> rendered,
     escaped |-> escaped]

\* lines 51-57; the page of the previous run is cleared
Sidebar(k) ==
    /\ pc \in {"idle", "done"}
    /\ Len(tmp_files) < MaxFiles
    /\ api_key' = k
    /\ session_key' = StoreKey(session_key, k)
    /\ default_key' = StoreKey(default_key, k)
    /\ sidebar' = IF k # "" THEN <<"API key saved!">> ELSE << >>
    /\ prev' = IF pc = "done" /\ session_key' = session_key
               THEN <<ClickRecord>>
               ELSE << >>
    /\ in_fallback' = FALSE
    /\ gen_calls' = << >>
    /\ gen_started' = 0
    /\ gen_outcome' = NoOutcome
    /\ exc' = NoExc
    /\ final_tour' = None
    /\ tts_text' = None
    /\ speech_file_path' = 0
    /\ tts_requests' = << >>
    /\ tts_outcome' = << >>
    /\ tts_returned' = FALSE
    /\ tour_audio' = 0
    /\ rendered' = << >>
    /\ escaped' = FALSE
    /\ pc' = "widgets"
    /\ UNCHANGED << location, interests, duration, voice_style, loop_running,
                    tmp_files >>

\* lines 71-99
Widgets(loc, ints, dur, vs) ==
    /\ pc = "widgets"
    /\ location' = loc
    /\ interests' = ints
    /\ duration' = dur
    /\ voice_style' = vs
    /\ prev' = IF loc = location /\ ints = interests /\ dur = duration
               THEN prev
               ELSE << >>
    /\ pc' = "button"
    /\ UNCHANGED << session_key, default_key, sidebar, api_key, loop_running,
                    in_fallback, gen_calls, gen_started, gen_outcome, exc,
                    final_tour, tts_text, speech_file_path, tts_requests,
                    tts_outcome, tts_returned, tour_audio, tmp_files,
                    rendered, escaped >>

\* line 102: if st.button(...)
Button(clicked) ==
    /\ pc = "button"
    /\ prev' = IF clicked THEN prev ELSE << >>
    /\ pc' = IF clicked THEN "validate" ELSE "idle"
    /\ UNCHANGED << session_key, default_key, sidebar, api_key, location,
                    interests, duration, voice_style, loop_running,
                    in_fallback, gen_calls, gen_started, gen_outcome, exc,
                    final_tour, tts_text, speech_file_path, tts_requests,
                    tts_outcome, tts_returned, tour_audio, tmp_files,
                    rendered, escaped >>

(***************************************************************************)
(* Button handler, lines 103-108: validation.                              *)
(***************************************************************************)
ValidationErrorNoInterestCheck(key, loc, ints) ==
    IF key = NoKey THEN "Please enter your OpenAI API key in the sidebar."
    ELSE IF loc = << >> THEN "Please enter a location."
    ELSE ""

\* the message of the first failing check, "" when all pass
ValidationError(key, loc, ints) ==
    IF key = NoKey THEN "Please enter your OpenAI API key in the sidebar."
    ELSE IF loc = << >> THEN "Please enter a location."
    ELSE IF ints = {} THEN "Please select at least one interest."
    ELSE ""

Validate ==
    /\ pc = "validate"
    /\ LET m == ValidationError(session_key, location, interests) IN
         IF m # ""
         THEN /\ rendered' = Append(rendered, Elem("error", <<m>>, << >>))
              /\ pc' = "done"
         ELSE /\ rendered' = rendered
              /\ pc' = "gen"
    /\ UNCHANGED << session_key, default_key, sidebar, api_key, location,
                    interests, duration, voice_style, loop_running,
                    in_fallback, gen_calls, gen_started, gen_outcome, exc,
                    final_tour, tts_text, speech_file_path, tts_requests,
                    tts_outcome, tts_returned, tour_audio, tmp_files,
                    escaped, prev >>

(***************************************************************************)
(* run_async(mgr.run, location, interests, duration), lines 34-40 and 113. *)
(***************************************************************************)
\* mgr.run(location, interests, duration): the request the coroutine carries
GenRequest(loc, ints, dur) ==
    [location |-> loc, interests |-> ints, duration |-> dur]

\* line 37: func(*args) makes the coroutine, asyncio.run starts it on a new
\* loop unless a loop is already running in this thread
RunAsyncTry ==
    /\ pc = "gen"
    /\ gen_calls' = Append(gen_calls, GenRequest(location, interests, duration))
    /\ IF loop_running
       THEN /\ exc' = RuntimeErr("asyncio.run() cannot be called from a running event loop")
            /\ gen_started' = gen_started
            /\ pc' = "ra_except"
       ELSE /\ exc' = NoExc
            /\ gen_started' = gen_started + 1
            /\ pc' = "gen_wait"
    /\ UNCHANGED << session_key, default_key, sidebar, api_key, location,
                    interests, duration, voice_style, loop_running,
                    in_fallback, gen_outcome, final_tour, tts_text,
                    speech_file_path, tts_requests, tts_outcome,
                    tts_returned, tour_audio, tmp_files, rendered, escaped,
                    prev >>

\* the coroutine finishes: the loop hands back its result or its exception
GenComplete(o) ==
    /\ pc = "gen_wait"
    /\ gen_outcome' = o
    /\ IF o.kind = "ok"
       THEN /\ final_tour' = o.script
            /\ exc' = NoExc
            /\ pc' = "panel"
       ELSE /\ final_tour' = final_tour
            /\ exc' = o.err
            /\ pc' = IF ~in_fallback /\ RunAsyncCatches(o.err)
                     THEN "ra_except"
                     ELSE "except"
    /\ UNCHANGED << session_key, default_key, sidebar, api_key, location,
                    interests, duration, voice_style, loop_running,
                    in_fallback, gen_calls, gen_started, tts_text,
                    speech_file_path, tts_requests, tts_outcome,
                    tts_returned, tour_audio, tmp_files, rendered, escaped,
                    prev >>

\* asyncio.get_event_loop() in the except branch: the running loop when one
\* is running; otherwise asyncio.run has just unset the thread's loop
GetEventLoopFresh(running) == "fresh"
GetEventLoop(running) == IF running THEN "running" ELSE "none"

\* lines 38-40
RunAsyncFallback ==
    /\ pc = "ra_except"
    /\ in_fallback' = TRUE
    /\ LET lp == GetEventLoop(loop_running) IN
         IF lp = "none"
         THEN /\ exc' = RuntimeErr("There is no current event loop")
              /\ UNCHANGED << gen_calls, gen_started >>
              /\ pc' = "except"
         ELSE /\ gen_calls' = Append(gen_calls,
                                     GenRequest(location, interests, duration))
              /\ IF loop_running
                 THEN /\ exc' = RuntimeErr(IF lp = "running"
                                THEN "This event loop is already running"
                                ELSE "Cannot run the event loop while another loop is running")
                      /\ gen_started' = gen_started
                      /\ pc' = "except"
                 ELSE /\ exc' = NoExc
                      /\ gen_started' = gen_started + 1
                      /\ pc' = "gen_wait"
    /\ UNCHANGED << session_key, default_key, sidebar, api_key, location,
                    interests, duration, voice_style, loop_running,
                    gen_outcome, final_tour, tts_text, speech_file_path,
                    tts_requests, tts_outcome, tts_returned, tour_audio,
                    tmp_files, rendered, escaped, prev >>

(***************************************************************************)
(* Button handler, lines 116-122: the text panel, the progress bar and the *)
(* call tts(final_tour).                                                   *)
(***************************************************************************)
\* the argument of tts at line 122
TtsArgumentStale(tour) == "script-1"
TtsArgument(tour) == tour

RenderPanel ==
    /\ pc = "panel"
    /\ rendered' = rendered \o << Elem("expander", <<final_tour>>, << >>),
                                  Elem("progress", <<"0">>, << >>) >>
    /\ tts_text' = TtsArgument(final_tour)
    /\ pc' = "tts"
    /\ UNCHANGED << session_key, default_key, sidebar, api_key, location,
                    interests, duration, voice_style, loop_running,
                    in_fallback, gen_calls, gen_started, gen_outcome, exc,
                    final_tour, speech_file_path, tts_requests, tts_outcome,
                    tts_returned, tour_audio, tmp_files, escaped, prev >>

(***************************************************************************)
(* tts(text), lines 9-32.                                                  *)
(***************************************************************************)
SpeechOk == [kind |-> "ok", err |-> NoExc]
SpeechFail(e) == [kind |-> "raise", err |-> e]
SpeechOutcomes ==
    {SpeechOk, SpeechFail(ApiErr("speech")), SpeechFail(RuntimeErr("speech")),
     SpeechFail(KeyboardInt("stop"))}

\* voice= of the request, line 25
TtsVoiceByStyle(style) ==
    IF style = "Friendly & Casual" THEN "nova"
    ELSE IF style = "Professional & Detailed" THEN "onyx"
    ELSE "shimmer"
TtsVoice(style) == "nova"

\* lines 23-27
TtsRequest(text, style) ==
    [model |-> "tts-1", voice |-> TtsVoice(style), input |-> text]

\* tts hands None back to its caller after st.error (lines 13-14, 31-32)
TtsReturnsNone(msg) ==
    /\ rendered' = Append(rendered, msg)
    /\ tour_audio' = 0
    /\ tts_returned' = TRUE
    /\ exc' = NoExc
    /\ pc' = "after_tts"

\* tts leaves by an exception its except clause does not catch
TtsRaises(e) ==
    /\ exc' = e
    /\ pc' = "except"
    /\ UNCHANGED << rendered, tour_audio, tts_returned >>

\* NamedTemporaryFile(suffix=".mp3", delete=False): a new, empty file
NoTempFile(files) == files
CreateTempFile(files) == Append(files, << >>)

\* lines 12-20
TtsEnter ==
    /\ pc = "tts"
    /\ IF session_key = NoKey
       THEN /\ TtsReturnsNone(Elem("error",
                   <<"API key not found in session state">>, << >>))
            /\ UNCHANGED << tmp_files, speech_file_path >>
       ELSE /\ tmp_files' = CreateTempFile(tmp_files)
            /\ speech_file_path' = Len(tmp_files')
            /\ pc' = "tts_create"
            /\ UNCHANGED << rendered, tour_audio, tts_returned, exc >>
    /\ UNCHANGED << session_key, default_key, sidebar, api_key, location,
                    interests, duration, voice_style, loop_running,
                    in_fallback, gen_calls, gen_started, gen_outcome,
                    final_tour, tts_text, tts_requests, tts_outcome, escaped,
                    prev >>

\* lines 23-27, and lines 30-32 when the request fails
TtsCreate(o) ==
    /\ pc = "tts_create"
    /\ tts_requests' = Append(tts_requests, TtsRequest(tts_text, voice_style))
    /\ tts_outcome' = Append(tts_outcome, o)
    /\ IF o.kind = "ok"
       THEN /\ pc' = "tts_stream"
            /\ UNCHANGED << rendered, tour_audio, tts_returned, exc >>
       ELSE IF TtsCatches(o.err)
       THEN TtsReturnsNone(ErrorElem("Audio generation failed: ", o.err.msg))
       ELSE TtsRaises(o.err)
    /\ UNCHANGED << session_key, default_key, sidebar, api_key, location,
                    interests, duration, voice_style, loop_running,
                    in_fallback, gen_calls, gen_started, gen_outcome,
                    final_tour, tts_text, speech_file_path, tmp_files,
                    escaped, prev >>

\* lines 28-29, and lines 30-32 when the write fails; a failed write may
\* have put part of the audio in the file
TtsStream(o, partial) ==
    /\ pc = "tts_stream"
    /\ tts_outcome' = Append(tts_outcome, o)
    /\ IF o.kind = "ok"
       THEN /\ ~partial
            /\ tmp_files' = [tmp_files EXCEPT ![speech_file_path] =
                                Speech(tts_requests[Len(tts_requests)])]
            /\ tour_audio' = speech_file_path
            /\ tts_returned' = TRUE
            /\ pc' = "after_tts"
            /\ UNCHANGED << rendered, exc >>
       ELSE /\ tmp_files' = IF partial
                            THEN [tmp_files EXCEPT ![speech_file_path] =
                                     <<"partial">>]
                            ELSE tmp_files
            /\ IF TtsCatches(o.err)
               THEN TtsReturnsNone(ErrorElem("Audio generation failed: ",
                                             o.err.msg))
               ELSE TtsRaises(o.err)
    /\ UNCHANGED << session_key, default_key, sidebar, api_key, location,
                    interests, duration, voice_style, loop_running,
                    in_fallback, gen_calls, gen_started, gen_outcome,
                    final_tour, tts_text, speech_file_path, tts_requests,
                    escaped, prev >>

(***************************************************************************)
(* Button handler, lines 123-139.                                          *)
(***************************************************************************)
\* progress_bar.progress(100): the progress element is updated in place
SetProgress(r, v) ==
    [i \in 1..Len(r) |-> IF r[i].kind = "progress"
                         THEN Elem("progress", <<v>>, << >>)
                         ELSE r[i]]

\* if tour_audio: (line 125)
ShowsAudioAlways(path) == TRUE
ShowsAudio(path) == path # 0

\* lines 123-125
AfterTts ==
    /\ pc = "after_tts"
    /\ rendered' = SetProgress(rendered, "100")
    /\ pc' = IF ShowsAudio(tour_audio) THEN "audio" ELSE "done"
    /\ UNCHANGED << session_key, default_key, sidebar, api_key, location,
                    interests, duration, voice_style, loop_running,
                    in_fallback, gen_calls, gen_started, gen_outcome, exc,
                    final_tour, tts_text, speech_file_path, tts_requests,
                    tts_outcome, tts_returned, tour_audio, tmp_files,
                    escaped, prev >>

\* the bytes of the file at a path; reading a path that names no file fails
FileAt(path) == IF path \in 1..Len(tmp_files) THEN tmp_files[path] ELSE << >>

\* lines 127-128
RenderAudio ==
    /\ pc = "audio"
    /\ rendered' = rendered \o
           << Elem("markdown", <<"### Listen to Your Tour">>, << >>),
              Elem("audio", FileAt(tour_audio), <<"audio/mp3">>) >>
    /\ pc' = "download"
    /\ UNCHANGED << session_key, default_key, sidebar, api_key, location,
                    interests, duration, voice_style, loop_running,
                    in_fallback, gen_calls, gen_started, gen_outcome, exc,
                    final_tour, tts_text, speech_file_path, tts_requests,
                    tts_outcome, tts_returned, tour_audio, tmp_files,
                    escaped, prev >>

\* lines 131-137
RenderDownload ==
    /\ pc = "download"
    /\ rendered' = Append(rendered,
           Elem("download", FileName(location), FileAt(tour_audio)))
    /\ pc' = "done"
    /\ UNCHANGED << session_key, default_key, sidebar, api_key, location,
                    interests, duration, voice_style, loop_running,
                    in_fallback, gen_calls, gen_started, gen_outcome, exc,
                    final_tour, tts_text, speech_file_path, tts_requests,
                    tts_outcome, tts_returned, tour_audio, tmp_files,
                    escaped, prev >>

\* lines 138-139
HandlerExcept ==
    /\ pc = "except"
    /\ IF HandlerCatches(exc)
       THEN /\ rendered' = Append(rendered,
                   ErrorElem("Tour generation failed: ", exc.msg))
            /\ exc' = NoExc
            /\ escaped' = escaped
       ELSE /\ escaped' = TRUE
            /\ UNCHANGED << rendered, exc >>
    /\ pc' = "done"
    /\ UNCHANGED << session_key, default_key, sidebar, api_key, location,
                    interests, duration, voice_style, loop_running,
                    in_fallback, gen_calls, gen_started, gen_outcome,
                    final_tour, tts_text, speech_file_path, tts_requests,
                    tts_outcome, tts_returned, tour_audio, tmp_files, prev >>

(***************************************************************************)
(* The application: script runs of one session.                            *)
(***************************************************************************)
Next ==
    \/ \E k \in KeyInputs : Sidebar(k)
    \/ \E loc \in Locations, ints \in InterestChoices, dur \in Durations,
          vs \in VoiceStyles : Widgets(loc, ints, dur, vs)
    \/ \E clicked \in BOOLEAN : Button(clicked)
    \/ Validate
    \/ RunAsyncTry
    \/ \E o \in GenOutcomes : GenComplete(o)
    \/ RunAsyncFallback
    \/ RenderPanel
    \/ TtsEnter
    \/ \E o \in SpeechOutcomes : TtsCreate(o)
    \/ \E o \in SpeechOutcomes, partial \in BOOLEAN : TtsStream(o, partial)
    \/ AfterTts
    \/ RenderAudio
    \/ RenderDownload
    \/ HandlerExcept

Spec == Init /\ [][Next]_vars

(***************************************************************************)
(* tts called on its own, with any session state and text.                 *)
(***************************************************************************)
InitTts ==
    /\ InitCommon
    /\ session_key \in {NoKey} \cup Keys
    /\ location = << >>
    /\ interests = InterestDefault
    /\ duration = DurationDefault
    /\ tts_text \in Scripts
    /\ pc = "tts"

\* the next call of tts, once the previous one has returned
DirectTts(key, text) ==
    /\ pc \in {"after_tts", "except"}
    /\ Len(tmp_files) < MaxFiles
    /\ session_key' = key
    /\ tts_text' = text
    /\ speech_file_path' = 0
    /\ tts_requests' = << >>
    /\ tts_outcome' = << >>
    /\ tts_returned' = FALSE
    /\ tour_audio' = 0
    /\ rendered' = << >>
    /\ exc' = NoExc
    /\ pc' = "tts"
    /\ UNCHANGED << default_key, sidebar, api_key, location, interests,
                    duration, voice_style, loop_running, in_fallback,
                    gen_calls, gen_started, gen_outcome, final_tour,
                    tmp_files, escaped, prev >>

NextTts ==
    \/ TtsEnter
    \/ \E o \in SpeechOutcomes : TtsCreate(o)
    \/ \E o \in SpeechOutcomes, partial \in BOOLEAN : TtsStream(o, partial)
    \/ \E key \in {NoKey} \cup Keys, text \in Scripts : DirectTts(key, text)

SpecTts == InitTts /\ [][NextTts]_vars

(***************************************************************************)
(* run_async called on its own, with or without a running event loop.      *)
(***************************************************************************)
InitRunAsync ==
    /\ InitCommon
    /\ session_key = NoKey
    /\ location \in Locations
    /\ interests \in InterestChoices
    /\ duration \in Durations
    /\ tts_text = None
    /\ pc = "gen"

\* the next call of run_async, once the previous one has returned or raised
DirectRunAsync(loc, ints, dur) ==
    /\ pc \in {"panel", "except"}
    /\ location' = loc
    /\ interests' = ints
    /\ duration' = dur
    /\ in_fallback' = FALSE
    /\ gen_calls' = << >>
    /\ gen_started' = 0
    /\ gen_outcome' = NoOutcome
    /\ exc' = NoExc
    /\ final_tour' = None
    /\ pc' = "gen"
    /\ UNCHANGED << session_key, default_key, sidebar, api_key, voice_style,
                    loop_running, tts_text, speech_file_path, tts_requests,
                    tts_outcome, tts_returned, tour_audio, tmp_files,
                    rendered, escaped, prev >>

NextRunAsync ==
    \/ RunAsyncTry
    \/ \E o \in GenOutcomes : GenComplete(o)
    \/ RunAsyncFallback
    \/ \E loc \in Locations, ints \in InterestChoices, dur \in Durations :
           DirectRunAsync(loc, ints, dur)

SpecRunAsync == InitRunAsync /\ [][NextRunAsync]_vars

(***************************************************************************)
(* Vocabulary of the properties                                            *)
(***************************************************************************)
TtsPcs == {"tts", "tts_create", "tts_stream"}
HandlerPcs == {"validate", "gen", "gen_wait", "ra_except", "panel", "tts",
               "tts_create", "tts_stream", "after_tts", "audio", "download",
               "except"}

\* the order of the handler's steps
Rank(p) ==
    CASE p = "validate" -> 1
      [] p = "gen" -> 2
      [] p = "gen_wait" -> 3
      [] p = "ra_except" -> 4
      [] p = "panel" -> 5
      [] p = "tts" -> 6
      [] p = "tts_create" -> 7
      [] p = "tts_stream" -> 8
      [] p = "after_tts" -> 9
      [] p = "audio" -> 10
      [] p = "download" -> 11
      [] p = "except" -> 12
      [] p = "done" -> 13
      [] OTHER -> 0

StepsForward(p, q) == p \in HandlerPcs => Rank(p) < Rank(q)

InputsValid == session_key # NoKey /\ location # << >> /\ interests # {}
GenFailed == gen_outcome.kind = "raise"
TtsFailed == \E i \in 1..Len(tts_outcome) : tts_outcome[i].kind = "raise"
\* the exception of the failed call, and the classes outside Exception
FailureExc ==
    IF GenFailed THEN gen_outcome.err
    ELSE IF tts_outcome # << >> THEN tts_outcome[Len(tts_outcome)].err
    ELSE NoExc
NotExceptions == {"CancelledError", "KeyboardInterrupt"}
TtsStarted == pc \in TtsPcs \/ tts_requests # << >> \/ tts_returned
IndexOf(r, k) == CHOOSE i \in 1..Len(r) : r[i].kind = k

(***************************************************************************)
(* C1: the handler's flow is linear.  tts is entered and its request is    *)
(* sent only after the text-generation call returned a script, the text    *)
(* given to tts and sent to the speech service is that script, the audio   *)
(* player and the download button appear only after tts returned, and      *)
(* every step of the handler moves forward in the order of the steps.      *)
(***************************************************************************)
C1_State ==
    /\ TtsStarted =>
          /\ gen_outcome.kind = "ok"
          /\ final_tour = gen_outcome.script
          /\ tts_text = gen_outcome.script
          /\ \A i \in 1..Len(tts_requests) :
                 tts_requests[i].input = gen_outcome.script
    /\ (HasKind(rendered, "audio") \/ HasKind(rendered, "download")) =>
          /\ tts_returned
          /\ pc \in {"audio", "download", "done"}
    /\ pc \in {"gen", "gen_wait", "ra_except"} =>
          /\ ~TtsStarted
          /\ rendered = << >>

\* C1: in every run of the button handler the flow is linear: C1_State
\* holds in every state and every step of the handler moves forward
C1_Linear ==
    /\ []C1_State
    /\ [][StepsForward(pc, pc')]_vars

C1_Witness ==
    /\ pc = "done"
    /\ HasKind(rendered, "download")
    /\ final_tour = "script-2"
    /\ tts_requests = << [model |-> "tts-1", voice |-> "nova",
                          input |-> "script-2"] >>

(***************************************************************************)
(* C2: no service is called unless the key is in session state, the        *)
(* location is non-empty and an interest is selected; a click that fails   *)
(* validation renders exactly one error, the first of missing key, empty   *)
(* location, empty interests, and nothing else.                            *)
(***************************************************************************)
C2_ValidatedFirst ==
    /\ (gen_calls # << >> \/ gen_started > 0 \/ tts_requests # << >>
          \/ pc \in HandlerPcs \ {"validate"}) => InputsValid
    /\ (pc = "done" /\ ~InputsValid) =>
          /\ gen_calls = << >>
          /\ tts_requests = << >>
          /\ rendered = << Elem("error",
                << IF session_key = NoKey
                   THEN "Please enter your OpenAI API key in the sidebar."
                   ELSE IF location = << >>
                   THEN "Please enter a location."
                   ELSE "Please select at least one interest." >>, << >>) >>

C2_Witness ==
    /\ pc = "done"
    /\ session_key # NoKey
    /\ location = << >>
    /\ interests = {}
    /\ Len(rendered) = 1

(***************************************************************************)
(* C3: when the text-generation call or the speech call fails, no          *)
(* exception leaves the handler, the click shows exactly one error         *)
(* message, and neither the audio player nor the download button.          *)
(***************************************************************************)
C3_FailuresShown ==
    /\ ~escaped
    /\ (pc = "done" /\ (GenFailed \/ TtsFailed)) =>
          /\ exc = NoExc
          /\ CountKind(rendered, "error") = 1
          /\ ~HasKind(rendered, "audio")
          /\ ~HasKind(rendered, "download")

(***************************************************************************)
(* C3, amended: when the text-generation call or the speech call fails     *)
(* with an exception derived from Exception, no exception leaves the       *)
(* handler and the click shows exactly one error message; when it fails    *)
(* with an exception outside Exception (CancelledError, KeyboardInterrupt) *)
(* the exception leaves the handler and no error message is shown.  In     *)
(* both cases neither the audio player nor the download button appears,    *)
(* and nothing leaves the handler when no call failed.                     *)
(***************************************************************************)
C3_ExceptionsShown ==
    /\ escaped => (pc = "done" /\ FailureExc.type \in NotExceptions)
    /\ (pc = "done" /\ (GenFailed \/ TtsFailed)) =>
          /\ ~HasKind(rendered, "audio")
          /\ ~HasKind(rendered, "download")
          /\ IF FailureExc.type \in NotExceptions
             THEN /\ escaped
                  /\ exc = FailureExc
                  /\ CountKind(rendered, "error") = 0
             ELSE /\ ~escaped
                  /\ exc = NoExc
                  /\ CountKind(rendered, "error") = 1

C3_Witness ==
    /\ pc = "done"
    /\ TtsFailed
    /\ Len(tts_outcome) = 2
    /\ FailureExc.type = "RuntimeError"
    /\ HasKind(rendered, "expander")
    /\ rendered[Len(rendered)] = ErrorElem("Audio generation failed: ", "speech")

(***************************************************************************)
(* C4: within one click the text-generation coroutine is started at most   *)
(* once and the speech service is called at most once, also when the       *)
(* coroutine fails with a RuntimeError inside run_async.                   *)
(***************************************************************************)
C4_NoRetry ==
    /\ gen_started <= 1
    /\ Len(tts_requests) <= 1

C4_Witness ==
    /\ pc = "done"
    /\ ~loop_running
    /\ in_fallback
    /\ gen_outcome.err.type = "RuntimeError"
    /\ gen_started = 1

(***************************************************************************)
(* C5: run_async runs the call to completion and returns its result; with  *)
(* an event loop already running it takes the fallback, and the fallback   *)
(* still runs the call to completion and hands back its result.            *)
(***************************************************************************)
C5_FallbackCompletes ==
    /\ (loop_running /\ pc # "gen") => (pc = "ra_except" \/ in_fallback)
    /\ pc \in {"panel", "except"} =>
          /\ gen_started >= 1
          /\ gen_outcome # NoOutcome
          /\ (gen_outcome.kind = "ok" =>
                (pc = "panel" /\ final_tour = gen_outcome.script))

(***************************************************************************)
(* C6: after a click that passed validation the text panel is there        *)
(* exactly when text generation succeeded, it is rendered before tts       *)
(* starts and stays whatever tts does; the audio player and the download   *)
(* button are there together, exactly when tts returned a path.            *)
(***************************************************************************)
C6_Rendering ==
    /\ TtsStarted =>
          /\ HasKind(rendered, "expander")
          /\ rendered[IndexOf(rendered, "expander")].a = <<gen_outcome.script>>
    /\ (pc = "done" /\ gen_calls # << >>) =>
          /\ (HasKind(rendered, "expander") <=> gen_outcome.kind = "ok")
          /\ (HasKind(rendered, "audio") <=> (tts_returned /\ tour_audio # 0))
          /\ (HasKind(rendered, "download") <=> HasKind(rendered, "audio"))
          /\ CountKind(rendered, "audio") <= 1
          /\ CountKind(rendered, "download") <= 1
          /\ (HasKind(rendered, "audio") =>
                IndexOf(rendered, "expander") < IndexOf(rendered, "audio"))

C6_Witness ==
    /\ pc = "done"
    /\ HasKind(rendered, "expander")
    /\ tts_returned
    /\ tour_audio = 0
    /\ ~HasKind(rendered, "audio")

(***************************************************************************)
(* C7: over the script runs of a session the stored API key is never empty *)
(* and never removed; it changes only in a run whose sidebar input is      *)
(* non-empty, and then to that input; a run with an empty input leaves it  *)
(* as it was.  So the handler reaches tts only with the key present and    *)
(* tts never reports a missing key.                                        *)
(***************************************************************************)
C7_KeyState ==
    /\ session_key # ""
    /\ api_key # "" => session_key = api_key
    /\ pc \in TtsPcs => session_key # NoKey
    /\ \A i \in 1..Len(rendered) :
           rendered[i].a # <<"API key not found in session state">>

C7_KeyStep ==
    /\ session_key # NoKey => session_key' # NoKey
    /\ session_key' # session_key => (api_key' # "" /\ session_key' = api_key')
    /\ (pc \in {"idle", "done"} /\ pc' = "widgets" /\ api_key' = "") =>
           session_key' = session_key

\* C7: the stored API key is never empty and never removed, and changes
\* only to a non-empty sidebar input: C7_KeyState in every state, C7_KeyStep
\* in every step
C7_KeyKept ==
    /\ []C7_KeyState
    /\ [][C7_KeyStep]_vars

C7_Witness ==
    /\ pc = "tts_create"
    /\ api_key = ""
    /\ session_key = "sk-B"
    /\ Len(tmp_files) = 2

(***************************************************************************)
(* The parts of C8 that the failure of a synthesis does not touch: a call  *)
(* of tts that finds no API key creates no temporary file and sends no     *)
(* request; a request is sent only after this call created its file; a     *)
(* path is returned only when the request and the write both succeeded.    *)
(***************************************************************************)
C8_Files ==
    /\ (session_key = NoKey /\ pc # "tts") =>
          /\ tts_requests = << >>
          /\ speech_file_path = 0
          /\ tour_audio = 0
    /\ tts_requests # << >> =>
          /\ speech_file_path = Len(tmp_files)
          /\ speech_file_path >= 1
    /\ tour_audio # 0 =>
          /\ tts_returned
          /\ tour_audio = speech_file_path
          /\ tts_outcome = <<SpeechOk, SpeechOk>>
          /\ tmp_files[tour_audio] = <<"speech", "tts-1", "nova", tts_text>>

(***************************************************************************)
(* C8 as claimed: the temporary-file lifecycle of tts, where every         *)
(* synthesis that fails leaves the file in place and makes tts return      *)
(* None.                                                                   *)
(***************************************************************************)
C8_FailureReturnsNone ==
    /\ C8_Files
    /\ TtsFailed =>
          /\ speech_file_path \in 1..Len(tmp_files)
          /\ tts_returned
          /\ tour_audio = 0
          /\ pc = "after_tts"

\* the state part of C8 as amended, see C8_TempFiles
C8_State ==
    /\ (session_key = NoKey /\ pc # "tts") =>
          /\ tts_requests = << >>
          /\ speech_file_path = 0
          /\ tour_audio = 0
    /\ tts_requests # << >> =>
          /\ speech_file_path = Len(tmp_files)
          /\ speech_file_path >= 1
    /\ TtsFailed =>
          /\ pc \in {"after_tts", "except"}
          /\ tour_audio = 0
          /\ speech_file_path \in 1..Len(tmp_files)
          /\ tts_returned <=> FailureExc.type \notin NotExceptions
          /\ tts_returned <=> pc = "after_tts"
    /\ tour_audio # 0 =>
          /\ tts_returned
          /\ tour_audio = speech_file_path
          /\ tts_outcome = <<SpeechOk, SpeechOk>>
          /\ tmp_files[tour_audio] = <<"speech", "tts-1", "nova", tts_text>>

C8_Step ==
    /\ Len(tmp_files') >= Len(tmp_files)
    /\ \A i \in 1..Len(tmp_files) :
           tmp_files'[i] = tmp_files[i] \/ (i = speech_file_path /\ pc = "tts_stream")
    /\ (pc = "tts" /\ session_key = NoKey) => tmp_files' = tmp_files
    /\ (pc = "tts" /\ session_key # NoKey) =>
          /\ Len(tmp_files') = Len(tmp_files) + 1
          /\ tmp_files'[Len(tmp_files')] = << >>
          /\ tts_requests' = << >>
    /\ pc # "tts" => Len(tmp_files') = Len(tmp_files)

(***************************************************************************)
(* C8, amended: a call of tts that finds no API key creates no temporary   *)
(* file and sends no request; any other call creates exactly one file,     *)
(* before the request; no file is ever removed.  When synthesis fails the  *)
(* file is still there and its path is not returned: tts returns None      *)
(* when the failure is an Exception, and is left by the exception itself   *)
(* when that is outside Exception (KeyboardInterrupt).  A path is returned *)
(* only when the request and the write both succeeded.  C8_State holds in  *)
(* every state and C8_Step in every step.                                  *)
(***************************************************************************)
C8_TempFiles ==
    /\ []C8_State
    /\ [][C8_Step]_vars

C8_Witness ==
    /\ pc = "after_tts"
    /\ tts_returned
    /\ Len(tts_outcome) = 2
    /\ TtsFailed
    /\ tour_audio = 0
    /\ Len(tmp_files) = 2
    /\ tmp_files[2] = << >>
    /\ tmp_files[1] # << >>

(***************************************************************************)
(* C9: the voice style has no effect.  Every text-generation call carries  *)
(* (location, interests, duration) and every speech request is model       *)
(* tts-1, voice nova and the generated script; and a click that repeats    *)
(* the previous click's key, location, interests and duration and gets     *)
(* the same answers from the services issues the same requests and         *)
(* renders the same elements, whatever the two voice styles were.          *)
(***************************************************************************)
C9_VoiceIgnored ==
    /\ \A i \in 1..Len(gen_calls) :
           gen_calls[i] = [location |-> location, interests |-> interests,
                           duration |-> duration]
    /\ (pc \in HandlerPcs \cup {"done"}) =>
       \A i \in 1..Len(tts_requests) :
           tts_requests[i] = [model |-> "tts-1", voice |-> "nova",
                              input |-> final_tour]
    /\ (/\ pc = "done"
        /\ prev # << >>
        /\ prev[1].gen = gen_outcome
        /\ prev[1].tts = tts_outcome) =>
          /\ prev[1].gen_calls = gen_calls
          /\ prev[1].gen_started = gen_started
          /\ prev[1].tts_requests = tts_requests
          /\ prev[1].rendered = rendered
          /\ prev[1].escaped = escaped

C9_Witness ==
    /\ pc = "done"
    /\ prev # << >>
    /\ prev[1].voice = "Friendly & Casual"
    /\ voice_style = "Enthusiastic & Energetic"
    /\ prev[1].gen = gen_outcome
    /\ prev[1].tts = tts_outcome
    /\ HasKind(rendered, "download")
    /\ HasKind(prev[1].rendered, "download")

====
